---- MODULE Spec2Model ----
(***************************************************************************)
(* Verification model of the trade journal (src/app.py).                   *)
(*                                                                         *)
(* Two specifications share this module:                                   *)
(*   SpecAgg - the dashboard's aggregation (app.py lines 166-205) applied  *)
(*             to bounded input lists, in any order;                       *)
(*   Spec    - the web application: register, login, logout, add-entry and *)
(*             dashboard requests against the users/transactions tables.   *)
(*                                                                         *)
(* Amounts are Python floats (column "amount REAL", float(amount_raw),     *)
(* running = 0.0).  A float is modelled as a whole number of units kept to *)
(* Precision significant bits with round-half-to-even, overflowing to an   *)
(* infinity; inf - inf is NaN.  Quotients (win rate, averages) are kept as *)
(* reduced fractions: the one rounding of a float division is not          *)
(* modelled, the roundings of the additions are.                           *)
(***************************************************************************)
EXTENDS Integers, Sequences, FiniteSets, TLC

VARIABLES entries, out, pc,
          users, transactions, user_seq, tx_seq, session, resp, added

aggvars == <<entries, out, pc>>
webvars == <<users, transactions, user_seq, tx_seq, session, resp, added>>
vars == <<entries, out, pc, users, transactions, user_seq, tx_seq, session, resp, added>>

(***************************************************************************)
(* Bounds of the model.                                                    *)
(***************************************************************************)
\* significand width of the scaled-down float (53 in an IEEE double)
Precision == 3
\* largest exponent of the scaled-down float (1023 in an IEEE double)
MaxExp == 1
\* longest input list handed to the aggregation
MaxLen == 3
\* most rows in the transactions table
MaxTx == 2

(***************************************************************************)
(* Floats.                                                                 *)
(***************************************************************************)
Fin(n) == [c |-> "fin", v |-> n]
PInf == [c |-> "inf", v |-> 1]
NInf == [c |-> "inf", v |-> -1]
NaN == [c |-> "nan", v |-> 0]
Zero == Fin(0)

Abs(n) == IF n < 0 THEN -n ELSE n
Sgn(n) == IF n < 0 THEN -1 ELSE IF n > 0 THEN 1 ELSE 0

\* largest finite float: (2^Precision - 1) * 2^MaxExp
MaxFinite == (2^Precision - 1) * 2^MaxExp
\* the largest power of two that is a float; Big + 1 rounds back to Big
Big == 2^(Precision + MaxExp - 1)

RECURSIVE Ulp(_)
\* spacing of the floats around magnitude m
Ulp(m) == IF m < 2^Precision THEN 1 ELSE 2 * Ulp(m \div 2)

\* nearest integer to num/den (den > 0, num >= 0), ties to even
RoundHalfEven(num, den) ==
    LET q == num \div den
        r == num % den
    IN IF 2 * r > den \/ (2 * r = den /\ q % 2 = 1) THEN q + 1 ELSE q

\* the float nearest to the integer n: round to nearest, ties to even,
\* overflow to infinity
RoundFloat(n) ==
    LET m == Abs(n)
        u == Ulp(m)
        r == RoundHalfEven(m, u) * u
    IN IF r > MaxFinite
       THEN (IF n < 0 THEN NInf ELSE PInf)
       ELSE Fin(Sgn(n) * r)

\* a + b on floats
FAdd(a, b) ==
    IF a.c = "nan" \/ b.c = "nan" THEN NaN
    ELSE IF a.c = "inf" /\ b.c = "inf" THEN (IF a.v = b.v THEN a ELSE NaN)
    ELSE IF a.c = "inf" THEN a
    ELSE IF b.c = "inf" THEN b
    ELSE RoundFloat(a.v + b.v)

\* v > 0 and v < 0 on floats (both false for NaN)
Gt0(a) == a.c # "nan" /\ a.v > 0
Lt0(a) == a.c # "nan" /\ a.v < 0

(***************************************************************************)
(* Quotients, kept as reduced fractions num/den with den > 0.              *)
(***************************************************************************)
RECURSIVE GCD(_, _)
GCD(a, b) == IF b = 0 THEN a ELSE GCD(b, a % b)

Frac(n, d) ==
    LET g == GCD(Abs(n), d)
    IN [c |-> "fin", num |-> n \div g, den |-> d \div g]
FracZero == Frac(0, 1)
ZeroDivisionError == [c |-> "ZeroDivisionError", num |-> 0, den |-> 1]

\* x / n for a float x and an int n; raises for n = 0
FDiv(x, n) ==
    IF n = 0 THEN ZeroDivisionError
    ELSE IF x.c = "fin" THEN Frac(x.v, n)
    ELSE [c |-> x.c, num |-> x.v, den |-> 1]

\* a / b * 100 for ints a, b; raises for b = 0
IntDivTimes100(a, b) ==
    IF b = 0 THEN ZeroDivisionError ELSE Frac(100 * a, b)

\* a float as a fraction
ToFrac(x) == IF x.c = "fin" THEN Frac(x.v, 1) ELSE [c |-> x.c, num |-> x.v, den |-> 1]

\* round(q, 2): the nearest multiple of 1/100, ties to even; inf and nan
\* are returned as they are
Round2(q) ==
    IF q.c # "fin" THEN q
    ELSE Frac(Sgn(q.num) * RoundHalfEven(100 * Abs(q.num), q.den), 100)

FracGe0(q) == q.c # "nan" /\ q.num >= 0
FracLe0(q) == q.c # "nan" /\ q.num <= 0

(***************************************************************************)
(* Input domains.                                                          *)
(***************************************************************************)
\* date strings in lexical (= chronological) order; the last is the value
\* of date.today().isoformat()
DateOrder == <<"2024-01-01", "2024-01-02", "2026-11-01">>
Today == DateOrder[Len(DateOrder)]
AggDates == {DateOrder[1], DateOrder[2]}
DateRank(d) == CHOOSE i \in 1..Len(DateOrder) : DateOrder[i] = d
Kinds == {"trade", "deposit"}
Amounts == {Fin(-Big), Fin(-1), Fin(0), Fin(1), Fin(Big)}

EntryInputs == [date : AggDates, type : Kinds, amount : Amounts]

RECURSIVE SeqsUpTo(_, _)
\* all sequences over S of length at most n
SeqsUpTo(S, n) ==
    IF n = 0 THEN {<<>>}
    ELSE LET shorter == SeqsUpTo(S, n - 1)
         IN shorter \cup {Append(s, x) : s \in {t \in shorter : Len(t) = n - 1}, x \in S}

(***************************************************************************)
(* The dashboard's aggregation, app.py lines 166-205.                      *)
(***************************************************************************)
RECURSIVE DailyAfter(_, _)
\* the dict "daily" after the first k entries went through the loop
DailyAfter(es, k) ==
    IF k = 0 THEN [d \in {} |-> Zero]
    ELSE LET m == DailyAfter(es, k - 1)
             d == es[k].date
             cur == IF d \in DOMAIN m THEN m[d] ELSE Zero
         IN [x \in (DOMAIN m) \cup {d} |->
                IF x = d THEN FAdd(cur, es[k].amount) ELSE m[x]]

daily(es) == DailyAfter(es, Len(es))

RECURSIVE sorted(_)
\* sorted(daily.keys())
sorted(S) ==
    IF S = {} THEN <<>>
    ELSE LET first == CHOOSE d \in S : \A e \in S : DateRank(d) <= DateRank(e)
         IN <<first>> \o sorted(S \ {first})

\* pnl_daily with the dates of zero net amount left out
pnl_daily_SkipZero(es) ==
    LET m == daily(es)
        NonZero(d) == m[d] # Zero
        dates == SelectSeq(sorted(DOMAIN m), NonZero)
    IN [i \in 1..Len(dates) |-> [date |-> dates[i], amount |-> m[dates[i]]]]

pnl_daily(es) ==
    LET m == daily(es)
        dates == sorted(DOMAIN m)
    IN [i \in 1..Len(dates) |-> [date |-> dates[i], amount |-> m[dates[i]]]]

RECURSIVE running(_, _)
\* the variable "running" after the first i items of pnl_daily
running(pnl, i) ==
    IF i = 0 THEN Zero ELSE FAdd(running(pnl, i - 1), pnl[i].amount)

\* cumulative with the balance taken before the date's amount is added
cumulative_Before(pnl) ==
    [i \in 1..Len(pnl) |-> [date |-> pnl[i].date, balance |-> running(pnl, i - 1)]]

cumulative(pnl) ==
    [i \in 1..Len(pnl) |-> [date |-> pnl[i].date, balance |-> running(pnl, i)]]

RECURSIVE sum(_, _)
\* sum(xs): 0 + xs[1] + ... + xs[k], left to right
sum(xs, k) == IF k = 0 THEN Zero ELSE FAdd(sum(xs, k - 1), xs[k])

IsTrade(e) == e.type = "trade"
\* trade_amounts without the filter on the kind
trade_amounts_AllKinds(es) == [i \in 1..Len(es) |-> es[i].amount]

trade_amounts(es) ==
    LET ts == SelectSeq(es, IsTrade)
    IN [i \in 1..Len(ts) |-> ts[i].amount]
\* wins with a zero amount counted as a win
wins_WithZero(es) ==
    LET Ge0(a) == a.c # "nan" /\ a.v >= 0
    IN SelectSeq(trade_amounts(es), Ge0)

wins(es) == SelectSeq(trade_amounts(es), Gt0)
losses(es) == SelectSeq(trade_amounts(es), Lt0)
total_trades(es) == Len(trade_amounts(es))

\* win_rate without the guard on total_trades
win_rate_NoGuard(es) == IntDivTimes100(Len(wins(es)), total_trades(es))

win_rate(es) ==
    IF total_trades(es) > 0
    THEN IntDivTimes100(Len(wins(es)), total_trades(es))
    ELSE FracZero

avg_win(es) ==
    IF wins(es) # <<>>
    THEN FDiv(sum(wins(es), Len(wins(es))), Len(wins(es)))
    ELSE FracZero

avg_loss(es) ==
    IF losses(es) # <<>>
    THEN FDiv(sum(losses(es), Len(losses(es))), Len(losses(es)))
    ELSE FracZero

account_total(es) == running(pnl_daily(es), Len(pnl_daily(es)))

\* the locals of dashboard() at its return statement and, under "rendered",
\* the rounded values render_template receives; status names the exception
\* when one of the divisions raised
dashboard_context(es) ==
    LET raised == {q \in {win_rate(es), avg_win(es), avg_loss(es)} :
                      q.c = "ZeroDivisionError"}
    IN [status |-> IF raised = {} THEN "ok" ELSE "ZeroDivisionError",
        pnl_daily |-> pnl_daily(es),
        cumulative |-> cumulative(pnl_daily(es)),
        win_rate |-> win_rate(es),
        avg_win |-> avg_win(es),
        avg_loss |-> avg_loss(es),
        account_total |-> account_total(es),
        rendered |-> [win_rate |-> Round2(win_rate(es)),
                      avg_win |-> Round2(avg_win(es)),
                      avg_loss |-> Round2(avg_loss(es)),
                      account_total |-> Round2(ToFrac(account_total(es)))]]

(***************************************************************************)
(* Request data.  Text that the code converts (username, amount) is a      *)
(* sequence of characters; text it only stores or compares is a string.    *)
(* An optional value is <<>> (None) or <<x>>.                              *)
(***************************************************************************)
None == <<>>
Some(x) == <<x>>

Clients == {"c1", "c2"}
Digits == <<"0", "1", "2", "3", "4", "5", "6", "7", "8", "9">>
IsDigit(ch) == \E i \in 1..10 : Digits[i] = ch
DigitValue(ch) == (CHOOSE i \in 1..10 : Digits[i] = ch) - 1

RECURSIVE strip(_)
\* str.strip(): leading and trailing blanks removed
strip(s) ==
    IF s = <<>> THEN s
    ELSE IF Head(s) = " " THEN strip(Tail(s))
    ELSE IF s[Len(s)] = " " THEN strip(SubSeq(s, 1, Len(s) - 1))
    ELSE s

RECURSIVE DecimalValue(_)
DecimalValue(ds) ==
    IF ds = <<>> THEN 0
    ELSE 10 * DecimalValue(SubSeq(ds, 1, Len(ds) - 1)) + DigitValue(ds[Len(ds)])

ValueError == [c |-> "ValueError", v |-> 0]

\* float(text) on the alphabet of the model: blanks around an optional sign
\* followed by digits, "inf" or "nan"; anything else raises ValueError
float(text) ==
    LET t == strip(text)
        signed == t # <<>> /\ t[1] \in {"-", "+"}
        body == IF signed THEN Tail(t) ELSE t
        neg == signed /\ t[1] = "-"
    IN IF body = <<>> THEN ValueError
       ELSE IF \A i \in 1..Len(body) : IsDigit(body[i])
            THEN RoundFloat((IF neg THEN -1 ELSE 1) * DecimalValue(body))
       ELSE IF body = <<"i", "n", "f">> THEN (IF neg THEN NInf ELSE PInf)
       ELSE IF body = <<"n", "a", "n">> THEN NaN
       ELSE ValueError

\* werkzeug's generate_password_hash / check_password_hash
generate_password_hash(password) == <<"hash", password>>
check_password_hash(hash, password) == hash = <<"hash", password>>

UsernameInputs == {<<"a">>, <<"b", " ">>, <<" ">>}
RegisterPasswords == {"", "pw"}
LoginPasswords == {"pw", "bad"}
DateInputs == {None, Some(DateOrder[1])}
TypeInputs == {None, Some("trade")}
AmountInputs == {None, Some(<<"1">>), Some(<<"a", "b", "c">>), Some(<<"n", "a", "n">>)}
DescriptionInputs == {None}
EntryForms == [date : DateInputs, type : TypeInputs, amount : AmountInputs,
               description : DescriptionInputs]

(***************************************************************************)
(* The tables and the queries.                                             *)
(***************************************************************************)
\* the value a column of INTEGER affinity holds for the text s
IntegerAffinity(s) ==
    LET ints == {i \in 0..user_seq : ToString(i) = s}
    IN IF ints = {} THEN -1 ELSE CHOOSE i \in ints : TRUE

\* User.get / load_user: the id (as str) of the users row, "" when absent
current_user(c) ==
    IF \E i \in 1..Len(users) : users[i].id = IntegerAffinity(session[c])
    THEN session[c] ELSE ""

is_authenticated(c) == current_user(c) # ""

\* User.get_by_username
get_by_username(username) ==
    {i \in 1..Len(users) : users[i].username = username}

RECURSIVE OrderByDate(_)
\* ORDER BY date: rows of equal date stay in rowid order
OrderByDate(rows) ==
    IF rows = <<>> THEN <<>>
    ELSE LET k == CHOOSE i \in 1..Len(rows) :
                    \A j \in 1..Len(rows) :
                        \/ DateRank(rows[i].date) < DateRank(rows[j].date)
                        \/ (DateRank(rows[i].date) = DateRank(rows[j].date) /\ i <= j)
             rest == [j \in 1..(Len(rows) - 1) |-> IF j < k THEN rows[j] ELSE rows[j + 1]]
         IN <<rows[k]>> \o OrderByDate(rest)

\* the query without its WHERE clause
select_transactions_AllUsers(user_id) ==
    LET rows == OrderByDate(transactions)
    IN [i \in 1..Len(rows) |->
          [id |-> rows[i].id, date |-> rows[i].date, type |-> rows[i].type,
           amount |-> rows[i].amount, description |-> rows[i].description]]

\* SELECT id, date, type, amount, description FROM transactions
\* WHERE user_id = ? ORDER BY date
select_transactions(user_id) ==
    LET OfUser(r) == r.user_id = IntegerAffinity(user_id)
        rows == OrderByDate(SelectSeq(transactions, OfUser))
    IN [i \in 1..Len(rows) |->
          [id |-> rows[i].id, date |-> rows[i].date, type |-> rows[i].type,
           amount |-> rows[i].amount, description |-> rows[i].description]]

(***************************************************************************)
(* The requests.  resp is the response to the last request.                *)
(***************************************************************************)
NoResponse == [route |-> "none", client |-> "", kind |-> "none", flash |-> ""]
Redirect(route, c, to, msg) ==
    [route |-> route, client |-> c, kind |-> "redirect", to |-> to, flash |-> msg]
\* login_required turns an anonymous request away
Unauthorized(route, c) == Redirect(route, c, "login", "")

register(c, username, password) ==
    LET name == strip(username)
    IN /\ IF name = <<>> \/ password = ""
          THEN /\ resp' = Redirect("register", c, "register",
                                   "Username and password are required.")
               /\ UNCHANGED <<users, user_seq>>
          ELSE IF get_by_username(name) # {}
          THEN /\ resp' = Redirect("register", c, "register", "Username already taken.")
               /\ UNCHANGED <<users, user_seq>>
          ELSE /\ users' = Append(users, [id |-> user_seq + 1, username |-> name,
                                          password |-> generate_password_hash(password)])
               /\ user_seq' = user_seq + 1
               /\ resp' = Redirect("register", c, "login",
                                   "Registration successful. Please log in.")
       /\ UNCHANGED <<transactions, tx_seq, session, added>>
       /\ UNCHANGED aggvars

login(c, username, password) ==
    LET found == get_by_username(strip(username))
    IN /\ IF \E i \in found : check_password_hash(users[i].password, password)
          THEN /\ session' = [session EXCEPT ![c] =
                                 ToString(users[CHOOSE i \in found : TRUE].id)]
               /\ resp' = Redirect("login", c, "dashboard", "Logged in successfully.")
          ELSE /\ resp' = Redirect("login", c, "login", "Invalid username or password.")
               /\ UNCHANGED session
       /\ UNCHANGED <<users, user_seq, transactions, tx_seq, added>>
       /\ UNCHANGED aggvars

logout(c) ==
    /\ IF is_authenticated(c)
       THEN /\ session' = [session EXCEPT ![c] = ""]
            /\ resp' = Redirect("logout", c, "index", "Logged out.")
       ELSE /\ resp' = Unauthorized("logout", c)
            /\ UNCHANGED session
    /\ UNCHANGED <<users, user_seq, transactions, tx_seq, added>>
    /\ UNCHANGED aggvars

dashboard(c) ==
    /\ IF is_authenticated(c)
       THEN LET es == select_transactions(current_user(c))
            IN resp' = [route |-> "dashboard", client |-> c, kind |-> "page",
                        flash |-> "", user |-> current_user(c), entries |-> es,
                        context |-> dashboard_context(es)]
       ELSE resp' = Unauthorized("dashboard", c)
    /\ UNCHANGED <<users, user_seq, transactions, tx_seq, session, added>>
    /\ UNCHANGED aggvars

\* "x" without the default
Or_NoDefault(x, default) == IF x = None THEN "" ELSE x[1]

\* "x or default" for an optional string
Or(x, default) == IF x = None \/ x[1] = "" THEN default ELSE x[1]
\* "x or default" for an optional character sequence
OrText(x, default) == IF x = None \/ x[1] = <<>> THEN default ELSE x[1]

\* the insert as an upsert: a row of the same user and date is overwritten
insert_transaction_Upsert(user_id, entry_date, entry_type, amount, description) ==
    LET same == {i \in 1..Len(transactions) :
                    /\ transactions[i].user_id = IntegerAffinity(user_id)
                    /\ transactions[i].date = entry_date}
        row == [id |-> tx_seq + 1, user_id |-> IntegerAffinity(user_id),
                date |-> entry_date, type |-> entry_type,
                amount |-> amount, description |-> description]
    IN IF same = {} THEN Append(transactions, row)
       ELSE [i \in 1..Len(transactions) |-> IF i \in same THEN row ELSE transactions[i]]

\* INSERT INTO transactions (user_id, date, type, amount, description):
\* the table with the new row, its id taken from the AUTOINCREMENT sequence
insert_transaction(user_id, entry_date, entry_type, amount, description) ==
    Append(transactions,
           [id |-> tx_seq + 1, user_id |-> IntegerAffinity(user_id),
            date |-> entry_date, type |-> entry_type,
            amount |-> amount, description |-> description])

add_entry(c, form) ==
    LET entry_date == Or(form.date, Today)
        entry_type == form.type
        amount_raw == OrText(form.amount, <<"0">>)
        amount == float(amount_raw)
        description == form.description
    IN /\ Len(transactions) < MaxTx
       /\ IF ~is_authenticated(c)
          THEN /\ resp' = Unauthorized("add_entry", c)
               /\ UNCHANGED <<transactions, tx_seq, added>>
          ELSE IF amount = ValueError
          THEN /\ resp' = Redirect("add_entry", c, "dashboard", "Invalid amount")
               /\ UNCHANGED <<transactions, tx_seq, added>>
          ELSE IF entry_type = None \/ amount = NaN
          THEN \* NOT NULL constraint failed (a NaN is bound as NULL)
               /\ resp' = [route |-> "add_entry", client |-> c, kind |-> "error",
                           flash |-> "", exception |-> "IntegrityError"]
               /\ UNCHANGED <<transactions, tx_seq, added>>
          ELSE /\ transactions' = insert_transaction(current_user(c), entry_date,
                                                     entry_type[1], amount, description)
               /\ tx_seq' = tx_seq + 1
               /\ added' = Append(added, [user |-> current_user(c), form |-> form])
               /\ resp' = Redirect("add_entry", c, "dashboard", "Entry added.")
       /\ UNCHANGED <<users, user_seq, session>>
       /\ UNCHANGED aggvars

NoContext == [status |-> "none"]

AggIdle ==
    /\ entries = <<>>
    /\ out = NoContext
    /\ pc = "idle"

Init ==
    /\ users = <<>>
    /\ transactions = <<>>
    /\ user_seq = 0
    /\ tx_seq = 0
    /\ session = [c \in Clients |-> ""]
    /\ resp = NoResponse
    /\ added = <<>>
    /\ AggIdle

Next ==
    \/ \E c \in Clients, username \in UsernameInputs, password \in RegisterPasswords :
          register(c, username, password)
    \/ \E c \in Clients, username \in UsernameInputs, password \in LoginPasswords :
          login(c, username, password)
    \/ \E c \in Clients : logout(c)
    \/ \E c \in Clients : dashboard(c)
    \/ \E c \in Clients, form \in EntryForms : add_entry(c, form)

Spec == Init /\ [][Next]_vars

(***************************************************************************)
(* SpecAgg: the aggregation applied to every bounded input list.           *)
(***************************************************************************)
WebIdle ==
    /\ users = <<>>
    /\ transactions = <<>>
    /\ user_seq = 0
    /\ tx_seq = 0
    /\ session = [c \in Clients |-> ""]
    /\ resp = NoResponse
    /\ added = <<>>

InitAgg ==
    /\ entries \in SeqsUpTo(EntryInputs, MaxLen)
    /\ out = NoContext
    /\ pc = "input"
    /\ WebIdle

\* the aggregation runs on the input list
Aggregate ==
    /\ pc = "input"
    /\ out' = dashboard_context(entries)
    /\ pc' = "done"
    /\ UNCHANGED <<entries>>
    /\ UNCHANGED webvars

\* the same transactions are handed over in another order (two neighbours
\* swapped) and the aggregation runs again
Reorder(i) ==
    /\ pc = "done"
    /\ i \in 1..(Len(entries) - 1)
    /\ entries' = [entries EXCEPT ![i] = entries[i + 1], ![i + 1] = entries[i]]
    /\ out' = dashboard_context(entries')
    /\ pc' = "done"
    /\ UNCHANGED webvars

NextAgg ==
    \/ Aggregate
    \/ \E i \in 1..(MaxLen - 1) : Reorder(i)

SpecAgg == InitAgg /\ [][NextAgg]_vars

(***************************************************************************)
(* Properties of the aggregation (checked under SpecAgg).                  *)
(***************************************************************************)
\* the amounts of a list of entries, in order
AmountsOf(es) == [i \in 1..Len(es) |-> es[i].amount]
\* the Python sum() of a whole list of floats
SumAll(xs) == sum(xs, Len(xs))
\* the entries of one date, in input order
EntriesOn(es, d) == LET OnDate(e) == e.date = d IN SelectSeq(es, OnDate)
\* the exact (integer) sum of finite amounts
RECURSIVE ExactSum(_, _)
ExactSum(xs, k) == IF k = 0 THEN 0 ELSE ExactSum(xs, k - 1) + xs[k].v

\* C1: the account total equals the sum of the amounts of all transactions
\* of the input (the exact arithmetic sum, or at least Python's left-to-right
\* float sum of the list) and equals the sum of the amounts of daily.
C1_AccountTotalIsSumOfAmounts ==
    pc = "done" =>
        /\ \/ out.account_total = Fin(ExactSum(AmountsOf(entries), Len(entries)))
           \/ out.account_total = SumAll(AmountsOf(entries))
        /\ out.account_total = SumAll([i \in 1..Len(out.pnl_daily) |-> out.pnl_daily[i].amount])

\* C2: daily has exactly one element per distinct date of the input, in
\* strictly ascending date order, each amount being the sum (left to right,
\* in floats) of the amounts of all transactions of that date whatever their
\* kind; a date that nets to zero is present.
C2_DailyPerDate ==
    pc = "done" =>
        LET pnl == out.pnl_daily
            dates == {entries[k].date : k \in 1..Len(entries)}
        IN /\ Len(pnl) = Cardinality(dates)
           /\ {pnl[i].date : i \in 1..Len(pnl)} = dates
           /\ \A i, j \in 1..Len(pnl) :
                 i < j => DateRank(pnl[i].date) < DateRank(pnl[j].date)
           /\ \A i \in 1..Len(pnl) :
                 pnl[i].amount = SumAll(AmountsOf(EntriesOn(entries, pnl[i].date)))

\* C2 witness: two dates handed over in descending order, the earlier one
\* holding a trade and a non-trade that net to zero.
C2_Witness ==
    /\ pc = "done"
    /\ Len(entries) = 3
    /\ DateRank(entries[1].date) > DateRank(entries[2].date)
    /\ entries[2].date = entries[3].date
    /\ entries[2].type # entries[3].type
    /\ entries[2].amount = Fin(1) /\ entries[3].amount = Fin(-1)
    /\ Len(out.pnl_daily) = 2
    /\ out.pnl_daily[1].amount = Zero

\* C3: cumulative has the length and the dates of daily, in the same order;
\* cumulative[i].balance is the running sum of daily[1..i].amount started at
\* 0; the last balance is the unrounded account total.
C3_CumulativeIsRunningSum ==
    pc = "done" =>
        LET pnl == out.pnl_daily
            cum == out.cumulative
        IN /\ Len(cum) = Len(pnl)
           /\ \A i \in 1..Len(cum) :
                 /\ cum[i].date = pnl[i].date
                 /\ cum[i].balance = SumAll([k \in 1..i |-> pnl[k].amount])
           /\ cum # <<>> => cum[Len(cum)].balance = out.account_total

\* C3 witness: two dates with non-zero net amounts, so that the second
\* balance differs from both daily amounts.
C3_Witness ==
    /\ pc = "done"
    /\ Len(out.cumulative) = 2
    /\ out.pnl_daily[1].amount = Fin(1)
    /\ out.pnl_daily[2].amount = Fin(1)
    /\ out.cumulative[2].balance = Fin(2)

\* C4: win_rate is 100 * (number of trades with amount > 0) / (number of
\* trades), and 0 when there is no trade; a zero-amount trade counts in the
\* denominator only, other kinds count nowhere.
C4_WinRate ==
    pc = "done" =>
        LET trades == {i \in 1..Len(entries) : entries[i].type = "trade"}
            won == {i \in trades : entries[i].amount.v > 0}
            expected == IF trades = {} THEN Frac(0, 1)
                        ELSE Frac(100 * Cardinality(won), Cardinality(trades))
        IN /\ out.win_rate = expected
           /\ out.rendered.win_rate = Round2(expected)

\* C4 witness: a winning trade, a zero-amount trade and a positive non-trade:
\* the win rate is 50.
C4_Witness ==
    /\ pc = "done"
    /\ \E i, j, k \in 1..Len(entries) :
          /\ entries[i].type = "trade" /\ entries[i].amount = Fin(1)
          /\ entries[j].type = "trade" /\ entries[j].amount = Zero
          /\ entries[k].type # "trade" /\ entries[k].amount = Fin(1)
    /\ out.win_rate = Frac(50, 1)

\* C5: avg_win is the mean of the strictly positive trade amounts and
\* avg_loss the mean of the strictly negative trade amounts, 0 when there is
\* none; avg_win >= 0 and avg_loss <= 0; transactions of another kind do not
\* change either.
C5_Averages ==
    pc = "done" =>
        LET IsWin(e) == e.type = "trade" /\ e.amount.v > 0
            IsLoss(e) == e.type = "trade" /\ e.amount.v < 0
            w == AmountsOf(SelectSeq(entries, IsWin))
            l == AmountsOf(SelectSeq(entries, IsLoss))
            tradesOnly == dashboard_context(SelectSeq(entries, IsTrade))
        IN /\ out.avg_win = IF w = <<>> THEN Frac(0, 1) ELSE FDiv(SumAll(w), Len(w))
           /\ out.avg_loss = IF l = <<>> THEN Frac(0, 1) ELSE FDiv(SumAll(l), Len(l))
           /\ FracGe0(out.avg_win)
           /\ FracLe0(out.avg_loss)
           /\ out.avg_win = tradesOnly.avg_win
           /\ out.avg_loss = tradesOnly.avg_loss

\* C5 witness: two losing trades of different size, a winning trade and a
\* larger negative non-trade; avg_loss is negative.
C5_Witness ==
    /\ pc = "done"
    /\ \E i, j \in 1..Len(entries) :
          /\ entries[i].type = "trade" /\ entries[i].amount = Fin(-1)
          /\ entries[j].type # "trade" /\ entries[j].amount = Fin(-Big)
    /\ \E i \in 1..Len(entries) :
          entries[i].type = "trade" /\ entries[i].amount = Fin(1)
    /\ out.avg_loss = Frac(-1, 1)
    /\ out.avg_win = Frac(1, 1)

\* C6: the aggregation raises for no input list; for the empty list daily
\* and cumulative are empty and win_rate, avg_win, avg_loss and account_total
\* are 0, before and after rounding.
C6_TotalAndEmpty ==
    pc = "done" =>
        /\ out.status = "ok"
        /\ entries = <<>> =>
              /\ out.pnl_daily = <<>>
              /\ out.cumulative = <<>>
              /\ out.win_rate = Frac(0, 1)
              /\ out.avg_win = Frac(0, 1)
              /\ out.avg_loss = Frac(0, 1)
              /\ out.account_total = Zero
              /\ out.rendered = [win_rate |-> Frac(0, 1), avg_win |-> Frac(0, 1),
                                 avg_loss |-> Frac(0, 1), account_total |-> Frac(0, 1)]

\* C6 witness: the aggregation has run on the empty list.
C6_Witness == pc = "done" /\ entries = <<>> /\ out.status = "ok"

\* C9: handing the same transactions over in another order changes nothing
\* of daily, cumulative, win_rate, avg_win, avg_loss and account_total.
C9_OrderIndependent ==
    [][pc = "done" /\ pc' = "done" => out' = out]_vars

(***************************************************************************)
(* Properties of the web application (checked under Spec).                 *)
(***************************************************************************)
\* what an accepted add-entry request asked to store
Requested(a) ==
    [date |-> IF a.form.date \in {None, Some("")} THEN Today ELSE a.form.date[1],
     type |-> a.form.type[1],
     amount |-> IF a.form.amount = None THEN Zero ELSE float(a.form.amount[1]),
     description |-> a.form.description]
\* the transactions added while u was the logged-in user, by date
AddedBy(u) ==
    LET ByU(a) == a.user = u
        mine == SelectSeq(added, ByU)
    IN OrderByDate([i \in 1..Len(mine) |-> Requested(mine[i])])
WithoutId(es) ==
    [i \in 1..Len(es) |-> [date |-> es[i].date, type |-> es[i].type,
                           amount |-> es[i].amount, description |-> es[i].description]]
\* the rows of the table txs a user's dashboard is computed from (daily,
\* cumulative and the statistics are functions of these rows)
RowsOf(txs, user_id) ==
    LET OfUser(r) == r.user_id = user_id
    IN SelectSeq(txs, OfUser)
UserIds == {1, 2}

C7_PageIsScoped ==
    resp.kind = "page" =>
        /\ resp.user # ""
        /\ resp.user = session[resp.client]
        /\ WithoutId(resp.entries) = AddedBy(resp.user)
        /\ resp.context = dashboard_context(AddedBy(resp.user))

C7_OthersChangeNothing ==
    \A u \in UserIds :
        RowsOf(transactions', u) # RowsOf(transactions, u) =>
            /\ resp'.route = "add_entry"
            /\ resp'.flash = "Entry added."
            /\ session[resp'.client] = ToString(u)

\* C7: a rendered dashboard is computed from exactly the transactions added
\* while its user was the logged-in user, and the dashboard of a user
\* changes only in an add-entry request of a client logged in as that user.
C7_NoCrossUserVisibility ==
    []C7_PageIsScoped /\ [][C7_OthersChangeNothing]_vars

\* C7 witness: two clients logged in as different users, each user owning a
\* transaction, and the page of one of them shows its single entry.
C7_Witness ==
    /\ resp.kind = "page"
    /\ Len(resp.entries) = 1
    /\ \E c \in Clients : session[c] \notin {"", resp.user}
    /\ \E i \in 1..Len(transactions) :
          transactions[i].user_id # IntegerAffinity(resp.user)

C8_StepAppendsOnly ==
    LET n == Len(transactions)
    IN /\ Len(transactions') >= n
       /\ \A i \in 1..n : transactions'[i] = transactions[i]
       /\ transactions' # transactions =>
             /\ resp'.route = "add_entry"
             /\ resp'.flash = "Entry added."
             /\ Len(transactions') = n + 1
             /\ \A i \in 1..n : transactions[i].id # transactions'[n + 1].id
             /\ session[resp'.client] # ""
             /\ transactions'[n + 1].user_id = IntegerAffinity(session[resp'.client])
       /\ resp'.route \in {"dashboard", "login", "logout", "register"} =>
             transactions' = transactions

\* C8: the transactions table is append-only: every stored row stays as it
\* is, only an accepted add-entry changes the table, adding exactly one row
\* with a fresh id owned by the requesting client's logged-in user;
\* dashboard, login, logout and register leave the table unchanged.
C8_AppendOnly == [][C8_StepAppendsOnly]_vars

\* C8 witness: two rows with ids 1 and 2 owned by different users.
C8_Witness ==
    /\ Len(transactions) = 2
    /\ transactions[1].id = 1 /\ transactions[2].id = 2
    /\ transactions[1].user_id # transactions[2].user_id
    /\ resp.flash = "Entry added."

C10_StoredRowsAreValid ==
    /\ Len(added) = Len(transactions)
    /\ \A i \in 1..Len(transactions) :
          /\ transactions[i].amount.c \in {"fin", "inf"}
          /\ transactions[i].date # ""
          /\ added[i].form.amount # Some(<<"a", "b", "c">>)
          /\ added[i].form.amount = None => transactions[i].amount = Zero
          /\ added[i].form.date = None => transactions[i].date = Today

C10_InvalidAmountStoresNothing ==
    (resp'.route = "add_entry" /\ resp'.flash = "Invalid amount") =>
        transactions' = transactions

\* C10: every stored transaction has a numeric amount and a non-empty date;
\* a request whose amount does not parse stores nothing and leaves the table
\* unchanged, a missing amount is stored as 0 and a missing date as the
\* current date.
C10_AmountAndDatePresent ==
    []C10_StoredRowsAreValid /\ [][C10_InvalidAmountStoresNothing]_vars

\* C10 witness: a request without date and amount was stored as (today, 0)
\* and the last request, with an unparsable amount, was turned away.
C10_Witness ==
    /\ resp.flash = "Invalid amount"
    /\ \E i \in 1..Len(transactions) :
          /\ added[i].form.amount = None /\ added[i].form.date = None
          /\ transactions[i].amount = Zero /\ transactions[i].date = Today

====
